---------------------------- MODULE Spec2Model ----------------------------
(***************************************************************************)
(* Model of the WebViewBridge component (webview-bridge/index.android.js). *)
(*                                                                         *)
(* Every component instance is a React class instance: it is constructed   *)
(* and mounted once, receives native lifecycle events and commands while   *)
(* mounted, and is unmounted once.  DeviceEventEmitter is the process-wide *)
(* emitter on which componentWillMount registers a listener.               *)
(*                                                                         *)
(* op, calls, commands and console describe the latest step: the operation *)
(* that ran, the host callbacks it invoked (in order), the commands it     *)
(* handed to UIManager.dispatchViewManagerCommand (in order) and what it   *)
(* wrote to the console.  All handlers run to completion on the JS thread, *)
(* so one handler is one step.                                             *)
(***************************************************************************)
EXTENDS Integers, Sequences, FiniteSets, TLC

\* Bound of the model: the component instances ever constructed.
MaxInst == 2

Inst == 1..MaxInst

\* Bridge messages are opaque strings.
Msgs == { "ping", "hello" }

\* JavaScript's undefined and null.
Undefined == "undefined"
Null == [isNull |-> TRUE]

\* findNodeHandle of a ref that is gone.
NoHandle == [noHandle |-> TRUE]

RCT_WEBVIEWBRIDGE_REF == "webviewbridge"

WebViewBridgeState == [IDLE |-> "IDLE", LOADING |-> "LOADING", ERROR |-> "ERROR"]

\* nativeEvent payloads delivered by the native view.
ErrorEvents ==
  { [domain |-> "NET", code |-> "-6", description |-> "timeout"],
    [domain |-> "DNS", code |-> "-2", description |-> "not found"] }
NavEvents ==
  { [url |-> "a.html", title |-> "A", loading |-> TRUE,
     canGoBack |-> FALSE, canGoForward |-> FALSE],
    [url |-> "b.html", title |-> "B", loading |-> FALSE,
     canGoBack |-> TRUE, canGoForward |-> FALSE] }

\* A synthetic event as the handlers receive it: event.nativeEvent.
Event(ne) == [nativeEvent |-> ne]

\* The optional function props of the host-facing callback surface.
CallbackNames ==
  { "onBridgeMessage", "onLoadStart", "onLoad", "onLoadEnd", "onError",
    "onNavigationStateChange", "renderLoading", "renderError" }

\* A boolean prop is true, false or not passed at all.
FlagValues == { "true", "false", Undefined }
Truthy(v) == v = "true"

\* this.props: the function props that are set, startInLoadingState, and the
\* two legacy flags and two current flags render reads.
Props(cs, sil, jsa, dsa, js, ds) ==
  [ callbacks |-> cs, startInLoadingState |-> sil,
    javaScriptEnabledAndroid |-> jsa, domStorageEnabledAndroid |-> dsa,
    javaScriptEnabled |-> js, domStorageEnabled |-> ds ]

NoProps == Props({}, FALSE, Undefined, Undefined, Undefined, Undefined)

\* The props the host passes in the main specification: everything set, or
\* nothing but the two current flags.  The host may swap one for the other on
\* a mounted instance, so every DisplayState meets both.
HostProps ==
  { Props(CallbackNames, TRUE, Undefined, Undefined, "true", "true"),
    Props({}, FALSE, Undefined, Undefined, "true", "true") }

\* The props the host passes in the wide specification: every subset of the
\* function props, and every value of the four flags.
WideProps ==
  { Props(cs, sil, Undefined, Undefined, "true", "true") :
      cs \in SUBSET CallbackNames, sil \in BOOLEAN }
  \cup
  { Props(CallbackNames, FALSE, jsa, dsa, js, ds) :
      jsa \in FlagValues, dsa \in FlagValues, js \in FlagValues, ds \in FlagValues }

VARIABLES
  status,     \* [Inst -> {"unborn", "mounted", "unmounted"}]
  props,      \* this.props of each instance
  state,      \* this.state of each instance
  listeners,  \* DeviceEventEmitter's "webViewBridgeMessage" listeners, in order
  output,     \* what each instance last rendered (Null while not on screen)
  op,         \* the operation of the latest step
  calls,      \* host callbacks invoked by the latest step, in order
  commands,   \* commands dispatched to the native view by the latest step
  console,    \* console.warn / console.error lines of the latest step
  warned      \* the lines each instance's renders have written so far

vars ==
  <<status, props, state, listeners, output, op, calls, commands, console, warned>>

\* A host callback invocation: the instance whose props hold the callback, the
\* prop's name and the arguments by parameter name.
Call(i, cb, arg) == [inst |-> i, cb |-> cb, arg |-> arg]
NoArgs == [none |-> TRUE]
\* An operation: its kind, the instance it ran on (0: none) and its input.
Op(kind, i, arg) == [kind |-> kind, inst |-> i, arg |-> arg]

Has(p, cb) == cb \in p.callbacks

\* constructor: this.state
InitialState ==
  [ viewState |-> WebViewBridgeState.IDLE,
    lastErrorEvent |-> Null,
    startInLoadingState |-> TRUE ]


(***************************************************************************)
(* render()                                                                *)
(***************************************************************************)

\* The ERROR branch reads errorEvent.domain only when renderError is set
\* (&& short-circuits); reading a field of null throws.
RenderThrows(st, p) ==
  /\ st.viewState = WebViewBridgeState.ERROR
  /\ Has(p, "renderError")
  /\ st.lastErrorEvent = Null

\* The host renderers render() invokes, with their arguments.
RenderCalls(i, st, p) ==
  IF st.viewState = WebViewBridgeState.LOADING
    THEN IF Has(p, "renderLoading") THEN << Call(i, "renderLoading", NoArgs) >> ELSE << >>
  ELSE IF st.viewState = WebViewBridgeState.ERROR
    THEN IF Has(p, "renderError") /\ st.lastErrorEvent # Null
           THEN << Call(i, "renderError",
                        [ domain |-> st.lastErrorEvent.domain,
                          code |-> st.lastErrorEvent.code,
                          description |-> st.lastErrorEvent.description ]) >>
           ELSE << >>
  ELSE << >>

\* otherView: what the renderer returned, or nothing.
OtherView(st, p) ==
  IF st.viewState = WebViewBridgeState.LOADING
    THEN IF Has(p, "renderLoading") THEN "loading" ELSE "none"
  ELSE IF st.viewState = WebViewBridgeState.ERROR
    THEN IF Has(p, "renderError") THEN "error" ELSE "none"
  ELSE "none"

\* Faulty variant: the WebView is left visible under the error placeholder.
HiddenOnlyWhenLoading(st) ==
  st.viewState = WebViewBridgeState.LOADING

\* webViewStyles gets styles.hidden pushed in LOADING and in ERROR.
Hidden(st) ==
  \/ st.viewState = WebViewBridgeState.LOADING
  \/ st.viewState = WebViewBridgeState.ERROR

\* console output of one render(): the invalid-state report and the
\* deprecation warnings, in the order render() writes them.
RenderConsole(st, p) ==
  (IF st.viewState \notin { WebViewBridgeState.LOADING, WebViewBridgeState.ERROR,
                            WebViewBridgeState.IDLE }
     THEN << "error: RCTWebViewBridge invalid state encountered" >> ELSE << >>)
  \o (IF Truthy(p.javaScriptEnabledAndroid)
        THEN << "warn: javaScriptEnabledAndroid is deprecated" >> ELSE << >>)
  \o (IF Truthy(p.domStorageEnabledAndroid)
        THEN << "warn: domStorageEnabledAndroid is deprecated" >> ELSE << >>)

\* The console after a render wrote its lines to it.
Written(before, lines) == before \cup { lines[k] : k \in 1..Len(lines) }

\* The javaScriptEnabled and domStorageEnabled the native view is given:
\* javaScriptEnabled={true} comes first and {...props} overrides it when the
\* host passed the prop; the locals render computes from the legacy flags are
\* not passed on.
ViewJavaScriptEnabled(p) ==
  IF p.javaScriptEnabled = Undefined THEN "true" ELSE p.javaScriptEnabled

ViewDomStorageEnabled(p) == p.domStorageEnabled

\* The element tree render() returns: the native view with its props and
\* style, and otherView beside it.
Render(st, p) ==
  [ webView |-> [ ref |-> RCT_WEBVIEWBRIDGE_REF,
                  hidden |-> Hidden(st),
                  javaScriptEnabled |-> ViewJavaScriptEnabled(p),
                  domStorageEnabled |-> ViewDomStorageEnabled(p) ],
    otherView |-> OtherView(st, p),
    threw |-> RenderThrows(st, p) ]

(***************************************************************************)
(* Initial state: nothing constructed, no listener registered.             *)
(***************************************************************************)
NoOp == Op("none", 0, Null)

Init ==
  /\ status = [i \in Inst |-> "unborn"]
  /\ props = [i \in Inst |-> NoProps]
  /\ state = [i \in Inst |-> InitialState]
  /\ listeners = << >>
  /\ output = [i \in Inst |-> Null]
  /\ op = NoOp
  /\ calls = << >>
  /\ commands = << >>
  /\ console = << >>
  /\ warned = [i \in Inst |-> {}]

(***************************************************************************)
(* Mounting and unmounting                                                 *)
(***************************************************************************)

\* Faulty variant: the state field of the same name is read instead.
StartsLoadingFromState(st, p) == st.startInLoadingState

\* componentWillMount reads this.props.startInLoadingState (the state field of
\* the same name is never read).
StartsLoading(st, p) == p.startInLoadingState

\* Faulty variant: a misspelt member of WebViewBridgeState, which is undefined.
WillMountStateMisspelt(st, p) ==
  IF StartsLoading(st, p)
    THEN [st EXCEPT !.viewState = Undefined]
    ELSE st

\* The state componentWillMount leaves behind.
WillMountState(st, p) ==
  IF StartsLoading(st, p)
    THEN [st EXCEPT !.viewState = WebViewBridgeState.LOADING]
    ELSE st

\* DeviceEventEmitter.addListener("webViewBridgeMessage", ...)
AddListener(ls, i) == Append(ls, i)

\* The class defines no componentWillUnmount: unmounting leaves the emitter's
\* listeners as they are.
ListenersAfterUnmount(ls, i) == ls

\* new WebViewBridge(p); componentWillMount(); render().  Instances are
\* interchangeable, so they are constructed in the order of their numbers.
MountWith(i, p) ==
  /\ status[i] = "unborn"
  /\ \A j \in Inst : j < i => status[j] # "unborn"
  /\ LET st == WillMountState(InitialState, p) IN
       /\ state' = [state EXCEPT ![i] = st]
       /\ output' = [output EXCEPT ![i] = Render(st, p)]
       /\ calls' = RenderCalls(i, st, p)
       /\ console' = RenderConsole(st, p)
       /\ warned' = [warned EXCEPT ![i] = Written(@, RenderConsole(st, p))]
  /\ status' = [status EXCEPT ![i] = "mounted"]
  /\ props' = [props EXCEPT ![i] = p]
  /\ listeners' = AddListener(listeners, i)
  /\ op' = Op("mount", i, Null)
  /\ commands' = << >>

Mount(i) == \E p \in HostProps : MountWith(i, p)

\* React removes the instance from the tree.
Unmount(i) ==
  /\ status[i] = "mounted"
  /\ status' = [status EXCEPT ![i] = "unmounted"]
  /\ output' = [output EXCEPT ![i] = Null]
  /\ listeners' = ListenersAfterUnmount(listeners, i)
  /\ op' = Op("unmount", i, Null)
  /\ calls' = << >>
  /\ commands' = << >>
  /\ console' = << >>
  /\ UNCHANGED <<props, state, warned>>

\* The host re-renders with new props: render() runs again.
ReceivePropsWith(i, p) ==
  /\ status[i] = "mounted"
  /\ props' = [props EXCEPT ![i] = p]
  /\ output' = [output EXCEPT ![i] = Render(state[i], p)]
  /\ calls' = RenderCalls(i, state[i], p)
  /\ console' = RenderConsole(state[i], p)
  /\ warned' = [warned EXCEPT ![i] = Written(@, RenderConsole(state[i], p))]
  /\ op' = Op("props", i, Null)
  /\ commands' = << >>
  /\ UNCHANGED <<status, state, listeners>>

ReceiveProps(i) == \E p \in HostProps : ReceivePropsWith(i, p)


(***************************************************************************)
(* Inbound bridge messages                                                 *)
(***************************************************************************)

\* Faulty variant: the callback is invoked twice for one event.
ListenerCallsTwice(i, p, body) ==
  IF Has(p, "onBridgeMessage")
    THEN << Call(i, "onBridgeMessage", [message |-> body.message]),
            Call(i, "onBridgeMessage", [message |-> body.message]) >>
    ELSE << >>

\* The listener componentWillMount registers, run for instance i on body.
Listener(i, p, body) ==
  IF Has(p, "onBridgeMessage")
    THEN << Call(i, "onBridgeMessage", [message |-> body.message]) >>
    ELSE << >>

\* Faulty variant: only the listener registered last is run.
EmitCallsLastOnly(ls, ps, body) ==
  IF ls = << >> THEN << >>
  ELSE Listener(ls[Len(ls)], ps[ls[Len(ls)]], body)

\* DeviceEventEmitter.emit: every registered listener runs, in registration
\* order, whatever became of the instance that registered it.
RECURSIVE EmitCalls(_, _, _)
EmitCalls(ls, ps, body) ==
  IF ls = << >> THEN << >>
  ELSE Listener(Head(ls), ps[Head(ls)], body) \o EmitCalls(Tail(ls), ps, body)

\* The native module emits "webViewBridgeMessage" with {message: m}.
Emit(m) ==
  /\ calls' = EmitCalls(listeners, props, [message |-> m])
  /\ op' = Op("emit", 0, [message |-> m])
  /\ commands' = << >>
  /\ console' = << >>
  /\ UNCHANGED <<status, props, state, listeners, output, warned>>

\* event.nativeEvent.message; undefined when the field is missing.
MessageOf(ne) == IF "message" \in DOMAIN ne THEN ne.message ELSE Undefined

\* The events the native view's onChange can carry: no nativeEvent, a
\* nativeEvent without a message, a nativeEvent with a message.
ChangeEvents ==
  { Event(Null), Event([target |-> "view"]) }
    \cup { Event([target |-> "view", message |-> m]) : m \in Msgs }

\* onMessage(event)
OnMessageCalls(i, p, event) ==
  IF Has(p, "onBridgeMessage") /\ event.nativeEvent # Null
    THEN << Call(i, "onBridgeMessage", [message |-> MessageOf(event.nativeEvent)]) >>
    ELSE << >>

onMessage(i, event) ==
  /\ status[i] = "mounted"
  /\ calls' = OnMessageCalls(i, props[i], event)
  /\ op' = Op("change", i, event)
  /\ commands' = << >>
  /\ console' = << >>
  /\ UNCHANGED <<status, props, state, listeners, output, warned>>

(***************************************************************************)
(* Outbound commands                                                       *)
(***************************************************************************)
CommandNames == { "goForward", "goBack", "reload", "sendToBridge" }

\* getWebViewBridgeHandle(): findNodeHandle of the ref, which React clears
\* when the instance is unmounted.
GetWebViewBridgeHandle(i) ==
  IF status[i] = "mounted" THEN [tag |-> i] ELSE NoHandle

\* UIManager.dispatchViewManagerCommand(handle, command, args)
Dispatch(handle, command, args) ==
  [handle |-> handle, command |-> command, args |-> args]

\* Faulty variant: sendToBridge drops its message.
CommandArgsAlwaysNull(name, arg) == Null

\* The argument array of each command: null, or [message].
CommandArgs(name, arg) ==
  IF name = "sendToBridge" THEN [array |-> << arg.message >>] ELSE Null

\* goForward(), goBack(), reload(), sendToBridge(message)
Command(i, name, arg) ==
  /\ status[i] # "unborn"
  /\ commands' = << Dispatch(GetWebViewBridgeHandle(i), name, CommandArgs(name, arg)) >>
  /\ op' = Op(name, i, arg)
  /\ calls' = << >>
  /\ console' = << >>
  /\ UNCHANGED <<status, props, state, listeners, output, warned>>

goForward(i) == Command(i, "goForward", Null)
goBack(i) == Command(i, "goBack", Null)
reload(i) == Command(i, "reload", Null)
sendToBridge(i, m) == Command(i, "sendToBridge", [message |-> m])

(***************************************************************************)
(* Native lifecycle events                                                 *)
(***************************************************************************)

\* this.setState(patch): the patch is merged into the state.
SetState(st, patch) ==
  [k \in DOMAIN st |-> IF k \in DOMAIN patch THEN patch[k] ELSE st[k]]

\* updateNavigationState(event)
UpdateNavigationState(i, p, event) ==
  IF Has(p, "onNavigationStateChange")
    THEN << Call(i, "onNavigationStateChange", [navState |-> event.nativeEvent]) >>
    ELSE << >>

\* Faulty variant: the callback is called without looking whether it is set.
InvokeUnguarded(i, p, cb, event) == << Call(i, cb, [event |-> event]) >>

\* cb && cb(event)
Invoke(i, p, cb, event) ==
  IF Has(p, cb) THEN << Call(i, cb, [event |-> event]) >> ELSE << >>

\* Faulty variant: a load-start brings the loading placeholder back.
OnLoadingStartShowsLoading(st, event) ==
  SetState(st, [viewState |-> WebViewBridgeState.LOADING])

\* onLoadingStart(event): no setState.
OnLoadingStartState(st, event) == st

OnLoadingStartCalls(i, p, event) ==
  Invoke(i, p, "onLoadStart", event) \o UpdateNavigationState(i, p, event)

onLoadingStart(i, event) ==
  /\ status[i] = "mounted"
  /\ state' = [state EXCEPT ![i] = OnLoadingStartState(state[i], event)]
  /\ calls' = OnLoadingStartCalls(i, props[i], event)
  /\ op' = Op("loadStart", i, event)
  /\ commands' = << >>
  /\ console' = << >>
  /\ UNCHANGED <<status, props, listeners, output, warned>>

\* Faulty variant: the error is stored but the view state is not changed.
OnLoadingErrorKeepsViewState(st, event) ==
  SetState(st, [lastErrorEvent |-> event.nativeEvent])

\* Faulty variant: a stored error is not overwritten by a later one.
OnLoadingErrorKeepsFirst(st, event) ==
  SetState(st, [lastErrorEvent |-> IF st.lastErrorEvent = Null
                                     THEN event.nativeEvent ELSE st.lastErrorEvent,
                viewState |-> WebViewBridgeState.ERROR])

\* Faulty variant: the view state is changed but the error is not stored.
OnLoadingErrorForgetsEvent(st, event) ==
  SetState(st, [viewState |-> WebViewBridgeState.ERROR])

\* onLoadingError(event): setState, so render() runs again.
OnLoadingErrorState(st, event) ==
  SetState(st, [lastErrorEvent |-> event.nativeEvent,
                viewState |-> WebViewBridgeState.ERROR])

\* Faulty variant: a load-error also forwards the navigation snapshot.
OnLoadingErrorCallsWithNavigation(i, p, event) ==
  Invoke(i, p, "onError", event) \o Invoke(i, p, "onLoadEnd", event)
    \o UpdateNavigationState(i, p, event)

OnLoadingErrorCalls(i, p, event) ==
  Invoke(i, p, "onError", event) \o Invoke(i, p, "onLoadEnd", event)

onLoadingError(i, event) ==
  /\ status[i] = "mounted"
  /\ LET st == OnLoadingErrorState(state[i], event) IN
       /\ state' = [state EXCEPT ![i] = st]
       /\ output' = [output EXCEPT ![i] = Render(st, props[i])]
       /\ calls' = OnLoadingErrorCalls(i, props[i], event) \o RenderCalls(i, st, props[i])
       /\ console' = RenderConsole(st, props[i])
       /\ warned' = [warned EXCEPT ![i] = Written(@, RenderConsole(st, props[i]))]
  /\ op' = Op("loadError", i, event)
  /\ commands' = << >>
  /\ UNCHANGED <<status, props, listeners>>

\* Faulty variant: a successful load also forgets the stored error.
OnLoadingFinishClearsError(st, event) ==
  SetState(st, [viewState |-> WebViewBridgeState.IDLE, lastErrorEvent |-> Null])

\* onLoadingFinish(event): setState, so render() runs again.
OnLoadingFinishState(st, event) ==
  SetState(st, [viewState |-> WebViewBridgeState.IDLE])

OnLoadingFinishCalls(i, p, event) ==
  Invoke(i, p, "onLoad", event) \o Invoke(i, p, "onLoadEnd", event)
    \o UpdateNavigationState(i, p, event)

onLoadingFinish(i, event) ==
  /\ status[i] = "mounted"
  /\ LET st == OnLoadingFinishState(state[i], event) IN
       /\ state' = [state EXCEPT ![i] = st]
       /\ output' = [output EXCEPT ![i] = Render(st, props[i])]
       /\ calls' = OnLoadingFinishCalls(i, props[i], event) \o RenderCalls(i, st, props[i])
       /\ console' = RenderConsole(st, props[i])
       /\ warned' = [warned EXCEPT ![i] = Written(@, RenderConsole(st, props[i]))]
  /\ op' = Op("loadFinish", i, event)
  /\ commands' = << >>
  /\ UNCHANGED <<status, props, listeners>>

(***************************************************************************)
(* Specification                                                           *)
(***************************************************************************)
Next ==
  \/ \E i \in Inst : Mount(i)
  \/ \E i \in Inst : Unmount(i)
  \/ \E i \in Inst : ReceiveProps(i)
  \/ \E m \in Msgs : Emit(m)
  \/ \E i \in Inst : \E e \in ChangeEvents : onMessage(i, e)
  \/ \E i \in Inst : goForward(i)
  \/ \E i \in Inst : goBack(i)
  \/ \E i \in Inst : reload(i)
  \/ \E i \in Inst : \E m \in Msgs : sendToBridge(i, m)
  \/ \E i \in Inst : \E ne \in NavEvents : onLoadingStart(i, Event(ne))
  \/ \E i \in Inst : \E ne \in ErrorEvents : onLoadingError(i, Event(ne))
  \/ \E i \in Inst : \E ne \in NavEvents : onLoadingFinish(i, Event(ne))

Spec == Init /\ [][Next]_vars

\* The wide specification: one instance, mounted with any of WideProps and
\* re-rendered by the host with the props it has.
NextWide ==
  \/ \E p \in WideProps : MountWith(1, p)
  \/ \E i \in Inst : Unmount(i)
  \/ \E i \in Inst : ReceivePropsWith(i, props[i])
  \/ \E m \in Msgs : Emit(m)
  \/ \E i \in Inst : \E e \in ChangeEvents : onMessage(i, e)
  \/ \E i \in Inst : goForward(i)
  \/ \E i \in Inst : goBack(i)
  \/ \E i \in Inst : reload(i)
  \/ \E i \in Inst : \E m \in Msgs : sendToBridge(i, m)
  \/ \E i \in Inst : \E ne \in NavEvents : onLoadingStart(i, Event(ne))
  \/ \E i \in Inst : \E ne \in ErrorEvents : onLoadingError(i, Event(ne))
  \/ \E i \in Inst : \E ne \in NavEvents : onLoadingFinish(i, Event(ne))

SpecWide == Init /\ [][NextWide]_vars

(***************************************************************************)
(* Properties                                                              *)
(***************************************************************************)
Mounted == { i \in Inst : status[i] = "mounted" }

LifecycleKinds == { "loadStart", "loadError", "loadFinish" }

\* The calls of one callback that instance i made in the latest step.
CallsOf(i, cb) == SelectSeq(calls, LAMBDA c : c.inst = i /\ c.cb = cb)

\* C1: the DisplayState after a native lifecycle event is decided by the event
\* alone: load-error gives ERROR, load-finish gives IDLE, and load-start leaves
\* the state as it was.
C1_TransitionTable ==
  [][ \A i \in Inst :
        (op'.inst = i /\ op'.kind \in LifecycleKinds) =>
          /\ op'.kind = "loadError" =>
               state'[i].viewState = WebViewBridgeState.ERROR
          /\ op'.kind = "loadFinish" =>
               state'[i].viewState = WebViewBridgeState.IDLE
          /\ op'.kind = "loadStart" =>
               state'[i].viewState = state[i].viewState ]_vars

\* A load-start arrived in ERROR and the state is still ERROR.
C1_Witness ==
  /\ op.kind = "loadStart"
  /\ state[op.inst].viewState = WebViewBridgeState.ERROR

\* C2: no onBridgeMessage callback is invoked through an instance that has been
\* unmounted.
C2_NoBridgeCallAfterUnmount ==
  \A k \in 1..Len(calls) :
    calls[k].cb = "onBridgeMessage" => status[calls[k].inst] = "mounted"

\* C3: a stream event {message: m} makes every mounted instance that has an
\* onBridgeMessage callback call it exactly once, with m, within the delivery
\* itself; a step that delivers no message makes no onBridgeMessage call, so
\* nothing is held back and the calls follow the order of the deliveries.
C3_ExactlyOneCallPerDelivery ==
  /\ op.kind = "emit" =>
       \A i \in Mounted :
         Has(props[i], "onBridgeMessage") =>
           CallsOf(i, "onBridgeMessage")
             = << Call(i, "onBridgeMessage", [message |-> op.arg.message]) >>
  /\ op.kind \notin {"emit", "change"} =>
       \A i \in Inst : CallsOf(i, "onBridgeMessage") = << >>

\* A stream event was delivered while an instance with a callback was mounted.
C3_Witness ==
  /\ op.kind = "emit"
  /\ \E i \in Mounted :
       /\ Has(props[i], "onBridgeMessage")
       /\ Len(CallsOf(i, "onBridgeMessage")) = 1

\* C4: the number of live "webViewBridgeMessage" subscriptions equals the
\* number of mounted instances.
C4_SubscriptionsMatchMounted ==
  Len(listeners) = Cardinality(Mounted)

\* C5: right after mounting, the DisplayState is LOADING if the host set
\* startInLoadingState and IDLE otherwise.
C5_InitialDisplayState ==
  op.kind = "mount" =>
    state[op.inst].viewState =
      IF props[op.inst].startInLoadingState
        THEN WebViewBridgeState.LOADING
        ELSE WebViewBridgeState.IDLE

\* An instance was just mounted with startInLoadingState and is LOADING.
C5_Witness ==
  /\ op.kind = "mount"
  /\ props[op.inst].startInLoadingState
  /\ state[op.inst].viewState = WebViewBridgeState.LOADING

\* The arguments renderError gets for a stored error.
ErrorArgs(ne) ==
  [domain |-> ne.domain, code |-> ne.code, description |-> ne.description]

\* C6: the one stored ErrorInfo is the payload of the most recent load-error
\* (a load-error stores its payload, no other step changes what is stored),
\* and a render in ERROR with an error renderer invokes it exactly once, with
\* the domain, code and description of that payload.
C6_LatestErrorRetained ==
  [][ \A i \in Inst :
        /\ IF op'.kind = "loadError" /\ op'.inst = i
             THEN state'[i].lastErrorEvent = op'.arg.nativeEvent
             ELSE state'[i].lastErrorEvent = state[i].lastErrorEvent
        /\ \A k \in 1..Len(calls') :
             (calls'[k].cb = "renderError" /\ calls'[k].inst = i) =>
               /\ state'[i].viewState = WebViewBridgeState.ERROR
               /\ calls'[k].arg = ErrorArgs(state'[i].lastErrorEvent)
        /\ ( /\ op'.kind \in {"loadError", "props"}
             /\ op'.inst = i
             /\ state'[i].viewState = WebViewBridgeState.ERROR
             /\ Has(props'[i], "renderError") ) =>
             Len(SelectSeq(calls', LAMBDA c : c.inst = i /\ c.cb = "renderError")) = 1
     ]_vars

\* A load-error was just stored and rendered: the error renderer got the
\* domain, code and description the event carried.
C6_Witness ==
  /\ op.kind = "loadError"
  /\ state[op.inst].lastErrorEvent = op.arg.nativeEvent
  /\ CallsOf(op.inst, "renderError")
       = << Call(op.inst, "renderError", ErrorArgs(op.arg.nativeEvent)) >>

\* C7 as stated: after a load-finish the component holds no ErrorInfo.
C7_ErrorDroppedOnFinish ==
  op.kind = "loadFinish" => state[op.inst].lastErrorEvent = Null

\* C7, amended: a load-finish moves the state to IDLE and takes the error
\* placeholder away, but leaves the stored ErrorInfo as it was; only a
\* load-error replaces it.
C7_ErrorKeptOnFinish ==
  [][ \A i \in Inst :
        /\ (op'.kind = "loadFinish" /\ op'.inst = i) =>
             /\ state'[i].lastErrorEvent = state[i].lastErrorEvent
             /\ state'[i].viewState = WebViewBridgeState.IDLE
             /\ output'[i].otherView = "none"
             /\ \A k \in 1..Len(calls') : calls'[k].cb # "renderError"
        /\ state'[i].lastErrorEvent # state[i].lastErrorEvent =>
             (op'.kind = "loadError" /\ op'.inst = i) ]_vars

\* A load-finish has run and the earlier error's ErrorInfo is still stored.
C7_Witness ==
  /\ op.kind = "loadFinish"
  /\ state[op.inst].viewState = WebViewBridgeState.IDLE
  /\ state[op.inst].lastErrorEvent \in ErrorEvents

\* C8: what is on screen follows the DisplayState: the WebView is hidden
\* exactly when the state is not IDLE; the overlay is the loading renderer's
\* output in LOADING and the error renderer's in ERROR, when the host supplied
\* that renderer, and nothing otherwise; the WebView element is always there.
C8_RenderFollowsState ==
  \A i \in Mounted :
    LET o == output[i]
        vs == state[i].viewState
    IN /\ o # Null
       /\ o.webView.ref = RCT_WEBVIEWBRIDGE_REF
       /\ ~ o.threw
       /\ o.webView.hidden <=> (vs # WebViewBridgeState.IDLE)
       /\ o.otherView =
            IF vs = WebViewBridgeState.LOADING /\ Has(props[i], "renderLoading")
              THEN "loading"
            ELSE IF vs = WebViewBridgeState.ERROR /\ Has(props[i], "renderError")
              THEN "error"
            ELSE "none"

\* One instance shows the error overlay over a hidden WebView while another
\* shows the WebView alone.
C8_Witness ==
  \E i, j \in Mounted :
    /\ output[i].otherView = "error" /\ output[i].webView.hidden
    /\ output[j].otherView = "none" /\ ~ output[j].webView.hidden

\* C9: a command call on a mounted instance hands exactly one command to the
\* native view of that instance, with the call's name and payload (the message
\* for sendToBridge, none for the others), within the call itself; no other
\* step issues a command, so nothing is queued and the order is the callers'.
C9_OneCommandPerCall ==
  /\ (op.kind \in CommandNames /\ status[op.inst] = "mounted") =>
       commands =
         << [ handle |-> [tag |-> op.inst], command |-> op.kind,
              args |-> IF op.kind = "sendToBridge"
                         THEN [array |-> << op.arg.message >>] ELSE Null ] >>
  /\ op.kind \notin CommandNames => commands = << >>

\* sendToBridge was called on a mounted instance and one command went out.
C9_Witness ==
  /\ op.kind = "sendToBridge"
  /\ status[op.inst] = "mounted"
  /\ Len(commands) = 1
  /\ commands[1].args = [array |-> << op.arg.message >>]

\* C10: the commands, an inbound bridge message on either path and a
\* load-start leave the DisplayState and the stored ErrorInfo of every
\* instance as they were.
C10_FrameOfDisplayState ==
  [][ op'.kind \in CommandNames \cup {"emit", "change", "loadStart"} =>
        \A i \in Inst :
          /\ state'[i].viewState = state[i].viewState
          /\ state'[i].lastErrorEvent = state[i].lastErrorEvent ]_vars

\* A reload was issued while the instance shows an error, and it still does.
C10_Witness ==
  /\ op.kind = "reload"
  /\ status[op.inst] = "mounted"
  /\ state[op.inst].viewState = WebViewBridgeState.ERROR
  /\ state[op.inst].lastErrorEvent \in ErrorEvents

\* The callbacks a lifecycle event is to invoke on instance i, in the order
\* the handler reaches them, when all of them are set.
ListedCalls(kind, i, event) ==
  IF kind = "loadStart"
    THEN << Call(i, "onLoadStart", [event |-> event]),
            Call(i, "onNavigationStateChange", [navState |-> event.nativeEvent]) >>
  ELSE IF kind = "loadError"
    THEN << Call(i, "onError", [event |-> event]),
            Call(i, "onLoadEnd", [event |-> event]) >>
  ELSE << Call(i, "onLoad", [event |-> event]),
          Call(i, "onLoadEnd", [event |-> event]),
          Call(i, "onNavigationStateChange", [navState |-> event.nativeEvent]) >>

Renderers == { "renderLoading", "renderError" }

\* C11: a lifecycle event invokes exactly the callbacks listed for it (those
\* of them the host set), each once and with the event or its navigation
\* snapshot: load-start onLoadStart and onNavigationStateChange, load-error
\* onError and onLoadEnd and no onNavigationStateChange, load-finish onLoad,
\* onLoadEnd and onNavigationStateChange.
C11_ListedCallbacksOnly ==
  op.kind \in LifecycleKinds =>
    SelectSeq(calls, LAMBDA c : c.cb \notin Renderers)
      = SelectSeq(ListedCalls(op.kind, op.inst, op.arg),
                  LAMBDA c : Has(props[op.inst], c.cb))

\* A load-error on an instance with every callback set invoked onError and
\* onLoadEnd, and nothing else but the error renderer.
C11_Witness ==
  /\ op.kind = "loadError"
  /\ props[op.inst].callbacks = CallbackNames
  /\ Len(calls) = 3
  /\ calls[1] = Call(op.inst, "onError", [event |-> op.arg])
  /\ calls[2] = Call(op.inst, "onLoadEnd", [event |-> op.arg])

\* C12: whatever subset of the optional callbacks the host left out, no step
\* calls a callback that is not set (which would throw), no render throws,
\* the callbacks that are set are still called, and a lifecycle event moves
\* the DisplayState as the transition table says.
C12_MissingCallbacksTolerated ==
  [][ /\ \A k \in 1..Len(calls') : Has(props'[calls'[k].inst], calls'[k].cb)
      /\ \A i \in Inst :
           /\ status'[i] = "mounted" => ~ output'[i].threw
           /\ (op'.inst = i /\ op'.kind \in LifecycleKinds) =>
                /\ \A k \in 1..Len(ListedCalls(op'.kind, i, op'.arg)) :
                     LET c == ListedCalls(op'.kind, i, op'.arg)[k]
                     IN Has(props'[i], c.cb) =>
                          \E n \in 1..Len(calls') :
                            calls'[n].cb = c.cb /\ calls'[n] = c
                /\ state'[i].viewState =
                     IF op'.kind = "loadError" THEN WebViewBridgeState.ERROR
                     ELSE IF op'.kind = "loadFinish" THEN WebViewBridgeState.IDLE
                     ELSE state[i].viewState ]_vars

\* A load-error reached an instance whose host set onLoadEnd alone: onLoadEnd
\* was called, nothing else was, and the state is ERROR with no placeholder.
C12_Witness ==
  /\ op.kind = "loadError"
  /\ props[op.inst].callbacks = {"onLoadEnd"}
  /\ calls = << Call(op.inst, "onLoadEnd", [event |-> op.arg]) >>
  /\ state[op.inst].viewState = WebViewBridgeState.ERROR
  /\ output[op.inst].otherView = "none"

\* C13: a content-changed event invokes onBridgeMessage, once and with the
\* message, when it carries a message and the callback is set, and invokes
\* nothing when it carries no message.
C13_MessageOnlyWhenCarried ==
  op.kind = "change" =>
    calls =
      IF /\ Has(props[op.inst], "onBridgeMessage")
         /\ op.arg.nativeEvent # Null
         /\ "message" \in DOMAIN op.arg.nativeEvent
        THEN << Call(op.inst, "onBridgeMessage",
                     [message |-> op.arg.nativeEvent.message]) >>
        ELSE << >>

DeprecationWarnings ==
  { "warn: javaScriptEnabledAndroid is deprecated",
    "warn: domStorageEnabledAndroid is deprecated" }

\* C14: a deprecation warning an instance has written once is not written by
\* that instance again.
C14_WarnedAtMostOnce ==
  [][ \A i \in Inst :
        op'.inst = i =>
          \A k \in 1..Len(console') :
            console'[k] \in DeprecationWarnings => console'[k] \notin warned[i] ]_vars

\* C15: with a legacy flag set, the native view is given the legacy flag's
\* value for the current option.
C15_LegacyFlagReachesView ==
  \A i \in Mounted :
    /\ Truthy(props[i].javaScriptEnabledAndroid) =>
         output[i].webView.javaScriptEnabled = props[i].javaScriptEnabledAndroid
    /\ Truthy(props[i].domStorageEnabledAndroid) =>
         output[i].webView.domStorageEnabled = props[i].domStorageEnabledAndroid

\* C16: the DisplayState of every instance is IDLE, LOADING or ERROR, and no
\* render reports an invalid state.
C16_ValidDisplayState ==
  /\ \A i \in Inst :
       state[i].viewState \in { WebViewBridgeState.IDLE, WebViewBridgeState.LOADING,
                                WebViewBridgeState.ERROR }
  /\ \A k \in 1..Len(console) :
       console[k] # "error: RCTWebViewBridge invalid state encountered"

\* An instance that started in LOADING has been rendered and nothing was
\* reported.
C16_Witness ==
  /\ op.kind = "mount"
  /\ state[op.inst].viewState = WebViewBridgeState.LOADING
  /\ output[op.inst] # Null
  /\ console = << >>

\* C17: an instance in ERROR has a stored ErrorInfo, so render's read of its
\* domain, code and description never meets null.
C17_ErrorHasErrorInfo ==
  \A i \in Inst :
    /\ state[i].viewState = WebViewBridgeState.ERROR =>
         state[i].lastErrorEvent # Null
    /\ status[i] = "mounted" => ~ output[i].threw

\* The host re-rendered an instance in ERROR and the error renderer was given
\* the stored error's fields.
C17_Witness ==
  /\ op.kind = "props"
  /\ state[op.inst].viewState = WebViewBridgeState.ERROR
  /\ state[op.inst].lastErrorEvent \in ErrorEvents
  /\ output[op.inst].otherView = "error"
  /\ Len(CallsOf(op.inst, "renderError")) = 1

\* C18: an instance is in LOADING after a step only if it was in LOADING
\* before it, or the step mounted it with startInLoadingState set: nothing
\* brings LOADING back once it is left, and an instance mounted without
\* startInLoadingState never has it.
C18_LoadingOnlyInitial ==
  [][ \A i \in Inst :
        state'[i].viewState = WebViewBridgeState.LOADING =>
          \/ state[i].viewState = WebViewBridgeState.LOADING
          \/ /\ op'.kind = "mount"
             /\ op'.inst = i
             /\ props'[i].startInLoadingState ]_vars

\* A load-start reached an instance that has an error stored, so has left
\* LOADING, and is IDLE: it stays IDLE.
C18_Witness ==
  /\ op.kind = "loadStart"
  /\ state[op.inst].lastErrorEvent \in ErrorEvents
  /\ state[op.inst].viewState = WebViewBridgeState.IDLE

\* C19: a lifecycle event on one instance leaves the state and the rendered
\* output of every other instance as they were, and one stream event makes
\* every mounted instance that has an onBridgeMessage callback call it exactly
\* once, with the message.
C19_InstancesShareOnlyTheStream ==
  [][ /\ op'.kind \in LifecycleKinds =>
           \A j \in Inst \ {op'.inst} :
             state'[j] = state[j] /\ output'[j] = output[j]
      /\ op'.kind = "emit" =>
           \A i \in Inst :
             (status'[i] = "mounted" /\ Has(props'[i], "onBridgeMessage")) =>
               SelectSeq(calls', LAMBDA c : c.inst = i)
                 = << Call(i, "onBridgeMessage", [message |-> op'.arg.message]) >> ]_vars

\* Two instances are mounted, one in ERROR and one not, and a stream event
\* has just called the callback of each.
C19_Witness ==
  /\ op.kind = "emit"
  /\ Cardinality(Mounted) >= 2
  /\ \A i \in Mounted : Len(CallsOf(i, "onBridgeMessage")) = 1
  /\ \E i, j \in Mounted :
       /\ state[i].viewState = WebViewBridgeState.ERROR
       /\ state[j].viewState # WebViewBridgeState.ERROR

=============================================================================
